---- MODULE Spec2Model ----
(***************************************************************************)
(* Model of src/fs/async_fs.rs: the AsyncFileSystem operation contract     *)
(* (trait with default bodies) and the AsyncFs dispatch/reply bridge       *)
(* (impl Filesystem for AsyncFs, spawn_reply).                             *)
(*                                                                         *)
(* One transport thread calls the synchronous entry points one at a time   *)
(* (they take &mut self).  Every non-lifecycle entry point spawns a task   *)
(* on the executor; tasks advance independently of the transport thread    *)
(* and of each other.  The concrete filesystem behind the Arc is the       *)
(* environment: an operation it overrides may stay suspended for any time  *)
(* and may return any result its signature allows; an operation it does    *)
(* not override runs the default body written in the trait.                *)
(***************************************************************************)
EXTENDS Naturals, Sequences, FiniteSets

\* ------------------------------------------------------------------ bounds
\* number of requests the transport dispatches in one run
MaxReq == 2
\* inode numbers 1..MaxIno
MaxIno == 2
\* lookup counts 1..MaxLookup carried by forget
MaxLookup == 2

\* length of a call sequence on one open file: open, flushes, release
MaxSeq == 4

\* extended attribute values: byte strings of length 0..MaxXattrLen over
\* bytes 1..MaxByte; requested sizes 0..MaxXattrLen + 1
MaxXattrLen == 2
MaxByte == 2

Reqs == 1..MaxReq
Inos == 1..MaxIno

\* ------------------------------------------------------- program constants
\* errno of "function not implemented", the code the default bodies reply
ENOSYS == 38
\* errno of an I/O failure
EIO == 5
\* errno of "no such entity", "permission denied" and "invalid argument"
ENOENT == 2
EACCES == 13
EINVAL == 22
\* errno of "result out of range", the code for a value that does not fit
ERANGE == 34
\* default statfs reply: block size and maximum name length
StatfsBsize == 512
StatfsNamelen == 255

\* ---------------------------------------------------- operation contract
\* async methods of the trait that return Result<V>
AsyncResultOps ==
    {"init", "lookup", "getattr", "setattr", "readlink", "mknod", "mkdir",
     "unlink", "rmdir", "symlink", "rename", "link", "open", "read", "write",
     "flush", "release", "fsync"}

\* async methods of the trait that return nothing
AsyncUnitOps == {"destroy", "forget"}

\* methods of the trait that still take the reply sink and answer on it; the
\* bridge already calls those it dispatches (all but readdir and bmap) as
\* async methods returning a Result, so for them the answer a default body
\* gives on the sink is taken as the Result the bridge gets back
SinkOps ==
    {"opendir", "readdir", "readdirplus", "releasedir", "fsyncdir", "statfs",
     "setxattr", "getxattr", "listxattr", "removexattr", "access", "create",
     "getlk", "setlk", "bmap", "ioctl", "fallocate", "lseek",
     "copy_file_range", "setvolname", "exchange", "getxtimes"}

ContractOps == AsyncResultOps \cup AsyncUnitOps \cup SinkOps

\* failure classifications a filesystem can return
FsErrors == {"Unimplemented", "Io"}

Ok(v) == [tag |-> "ok", val |-> v, err |-> "none"]
Err(e) == [tag |-> "err", val |-> <<>>, err |-> e]
Unit == [tag |-> "unit", val |-> <<>>, err |-> "none"]
NoResult == [tag |-> "none", val |-> <<>>, err |-> "none"]

\* FsError::unimplemented()
FsErrorUnimplemented == "Unimplemented"

\* Open::new(fh, flags)
OpenNew(fh, flags) == <<fh, flags>>

\* operations whose default body is Err(FsError::unimplemented())
UnimplementedAsyncOps ==
    {"lookup", "getattr", "setattr", "readlink", "mknod", "mkdir", "unlink",
     "rmdir", "symlink", "rename", "link", "read", "write", "flush", "fsync"}

\* operations whose default body is reply.error(ENOSYS)
EnosysSinkOps ==
    {"readdir", "readdirplus", "fsyncdir", "setxattr", "getxattr",
     "listxattr", "removexattr", "access", "create", "getlk", "setlk", "bmap",
     "ioctl", "fallocate", "lseek", "copy_file_range", "setvolname",
     "exchange", "getxtimes"}

\* default bodies in which every operation without exception is unimplemented
DefaultResultAllUnimplemented(op) ==
    IF op \in AsyncUnitOps THEN Unit ELSE Err(FsErrorUnimplemented)

\* The outcome of the default body the trait gives each operation.  A default
\* body that answers reply.error(ENOSYS) on the sink is the not-implemented
\* failure; reply.opened / reply.ok / reply.statfs are successes.
DefaultResult(op) ==
    CASE op = "init" -> Ok(<<>>)
      [] op = "destroy" -> Unit
      [] op = "forget" -> Unit
      [] op \in UnimplementedAsyncOps -> Err(FsErrorUnimplemented)
      [] op = "open" -> Ok(OpenNew(0, 0))
      [] op = "release" -> Ok(<<>>)
      [] op = "opendir" -> Ok(OpenNew(0, 0))
      [] op = "releasedir" -> Ok(<<>>)
      [] op = "statfs" -> Ok(<<0, 0, 0, 0, 0, StatfsBsize, StatfsNamelen, 0>>)
      [] op \in EnosysSinkOps -> Err(FsErrorUnimplemented)

\* ------------------------------------------------------ error and replies
\* FsError -> c_int (err.into()); error.rs is not part of the sources, the
\* mapping follows the specification's error taxonomy.
ErrnoOf(e) ==
    CASE e = "Unimplemented" -> ENOSYS
      [] e = "InvalidArgument" -> EINVAL
      [] e = "NoEntry" -> ENOENT
      [] e = "PermissionDenied" -> EACCES
      [] e = "RangeExceeded" -> ERANGE
      [] e = "Io" -> EIO
      [] OTHER -> ENOSYS

\* one call on a reply sink
ReplyOk(id, v) == [kind |-> "ok", id |-> id, val |-> v, code |-> 0]
ReplyError(id, c) == [kind |-> "error", id |-> id, val |-> <<>>, code |-> c]

\* FsReply::reply(id, result): the single call that turns a Result into the
\* typed success reply or the error reply (reply.rs is not part of the
\* sources; modelled from the specification).
FsReply(id, res) ==
    IF res.tag = "ok" THEN ReplyOk(id, res.val)
    ELSE ReplyError(id, ErrnoOf(res.err))

\* ------------------------------------------------------------ environment
\* success payload returned by a filesystem that overrides op
OverridePayload(op) ==
    IF op \in {"open", "opendir", "create"} THEN OpenNew(3, 1)
    ELSE IF op \in {"init", "unlink", "rmdir", "rename", "flush", "release",
                    "fsync", "releasedir", "fsyncdir", "setxattr",
                    "removexattr", "access", "setlk"} THEN <<>>
    ELSE <<1>>

\* the filesystems considered: the trait with no override, and a concrete
\* filesystem that overrides operations of every dispatch shape
PartialOverride ==
    {"init", "destroy", "forget", "lookup", "open", "read", "release",
     "readdir"}
FsChoices == {{}, PartialOverride}

\* getxattr and listxattr, the operations that take a requested size
XattrOps == {"getxattr", "listxattr"}

\* a concrete filesystem that stores extended attributes
XattrOverride == {"getxattr", "listxattr"}

\* Xattr::size(n) and Xattr::data(d), the two successes of getxattr and
\* listxattr
XattrSize(n) == [hasdata |-> FALSE, size |-> n, data |-> <<>>]
XattrData(d) == [hasdata |-> TRUE, size |-> Len(d), data |-> d]

\* values a filesystem may store, and sizes the transport may request
XattrValues ==
    UNION {[1..l -> 1..MaxByte] : l \in 0..MaxXattrLen}
XattrSizes == 0..(MaxXattrLen + 1)

\* what getxattr / listxattr of a filesystem that stores value returns for
\* a requested size, as the contract documents it: size 0 asks for the
\* length; otherwise the value if it fits and the range failure if not
XattrResult(value, size) ==
    IF size = 0 THEN Ok(XattrSize(Len(value)))
    ELSE IF Len(value) <= size THEN Ok(XattrData(value))
    ELSE Err("RangeExceeded")

VARIABLES
    overridden, \* operations the concrete filesystem overrides
    buf,        \* the transport's buffer holding the name / data bytes of
                \* the request it delivers
    probe,      \* a contract operation invoked directly, with its outcome
    stored,     \* the extended attribute value the filesystem stores
    tpc,        \* position of the transport thread
    cur,        \* request whose entry point the transport thread is in
    initst,     \* contract init future: "none", "running", "done"
    initres,    \* result of the contract's init, once completed
    initret,    \* what the bridge's init returned to the transport
    destroyst,  \* contract destroy future: "none", "running", "done"
    nreq,       \* requests dispatched so far
    call,       \* call[r]: arguments the transport passed for request r
    task,       \* task[r]: the spawned task, its captured values and state
    invoked,    \* invoked[r]: contract operation the task invoked, with args
    res,        \* res[r]: result the contract operation returned
    sink        \* sink[r]: reply calls made on the reply sink of request r

vars == <<overridden, buf, probe, stored, tpc, cur, initst, initres, initret, destroyst, nreq, call, task,
          invoked, res, sink>>

fsVars == <<overridden, buf, probe, stored>>

NoProbe == [op |-> "none", ino |-> 0, out |-> <<>>]
NoCall == [op |-> "none", ino |-> 0, n |-> 0, data |-> <<>>]
NoTask == [st |-> "none", kind |-> "none", id |-> 0, op |-> "none",
           ino |-> 0, n |-> 0, data |-> <<>>, fs |-> "none"]
NoRet == [tag |-> "none", code |-> 0]

\* outcomes of a Result-returning operation on the filesystem in use
ContractOutcomes(op) ==
    IF op \in overridden
    THEN {Ok(OverridePayload(op))} \cup {Err(e) : e \in FsErrors}
    ELSE {DefaultResult(op)}

\* what an operation holding the sink does with it before its task ends: the
\* default body answers ENOSYS; an overriding body finalizes it once (data or
\* an error) or leaves the task without having finalized it (the sink is
\* moved on or dropped).
StreamOutcomes(op, id) ==
    IF op \in overridden
    THEN {<<>>, <<ReplyOk(id, OverridePayload(op))>>}
         \cup {<<ReplyError(id, ErrnoOf(e))>> : e \in FsErrors}
    ELSE {<<ReplyError(id, ENOSYS)>>}

\* what the operation invoked with the arguments c returns: a filesystem
\* that stores extended attributes answers getxattr and listxattr from the
\* stored value and the size it was invoked with; every other operation has
\* the outcomes of its signature
OpOutcomes(c) ==
    IF c.op \in XattrOps /\ c.op \in overridden
    THEN {XattrResult(stored, c.n)}
    ELSE ContractOutcomes(c.op)

\* the state after construction, with room for the requests in slots
Start(slots) ==
    /\ overridden \in FsChoices
    /\ buf = <<>>
    /\ probe = NoProbe
    /\ stored = <<>>
    /\ tpc = "unmounted"
    /\ cur = 0
    /\ initst = "none"
    /\ initres = NoResult
    /\ initret = NoRet
    /\ destroyst = "none"
    /\ nreq = 0
    /\ call = [r \in slots |-> NoCall]
    /\ task = [r \in slots |-> NoTask]
    /\ invoked = [r \in slots |-> NoCall]
    /\ res = [r \in slots |-> NoResult]
    /\ sink = [r \in slots |-> <<>>]

Init == Start(Reqs)

\* -------------------------------------------------------------- lifecycle
taskVars == <<nreq, call, task, invoked, res, sink>>
lifeVars == <<initst, initres, initret, destroyst>>

\* an init that spawns the contract's init instead of blocking on it
InitCallSpawned ==
    /\ tpc = "unmounted"
    /\ tpc' = "idle"
    /\ initst' = "running"
    /\ UNCHANGED <<fsVars, cur, initres, initret, destroyst, taskVars>>

\* AsyncFs::init: block_on(self.0.init()) starts the contract's init on the
\* calling thread, which stays inside block_on.
InitCall ==
    /\ tpc = "unmounted"
    /\ tpc' = "in_init"
    /\ initst' = "running"
    /\ UNCHANGED <<fsVars, cur, initres, initret, destroyst, taskVars>>

\* the contract's init future completes with its result
InitComplete ==
    /\ initst = "running"
    /\ \E x \in ContractOutcomes("init") : initres' = x
    /\ initst' = "done"
    /\ UNCHANGED <<fsVars, tpc, cur, initret, destroyst, taskVars>>

\* .map_err(|err| err.into())
MapInitErr(x) ==
    IF x.tag = "ok" THEN [tag |-> "ok", code |-> 0]
    ELSE [tag |-> "err", code |-> ErrnoOf(x.err)]

\* an init that swallows the failure, as destroy does
InitReturnSwallow ==
    /\ tpc = "in_init"
    /\ initst = "done"
    /\ initret' = [tag |-> "ok", code |-> 0]
    /\ tpc' = "idle"
    /\ UNCHANGED <<fsVars, cur, initst, initres, destroyst, taskVars>>

\* block_on returns once the future is complete; the entry point returns the
\* mapped result, and the transport mounts only on success.
InitReturn ==
    /\ tpc = "in_init"
    /\ initst = "done"
    /\ initret' = MapInitErr(initres)
    /\ tpc' = IF initres.tag = "ok" THEN "idle" ELSE "aborted"
    /\ UNCHANGED <<fsVars, cur, initst, initres, destroyst, taskVars>>

\* a destroy that first waits until no dispatched task is in flight
DestroyCallDraining ==
    /\ tpc = "idle"
    /\ \A r \in DOMAIN task : task[r].st \in {"none", "done"}
    /\ tpc' = "in_destroy"
    /\ destroyst' = "running"
    /\ UNCHANGED <<fsVars, cur, initst, initres, initret, taskVars>>

\* AsyncFs::destroy: block_on(self.0.destroy())
DestroyCall ==
    /\ tpc = "idle"
    /\ tpc' = "in_destroy"
    /\ destroyst' = "running"
    /\ UNCHANGED <<fsVars, cur, initst, initres, initret, taskVars>>

\* the contract's destroy future completes (it returns nothing)
DestroyComplete ==
    /\ destroyst = "running"
    /\ destroyst' = "done"
    /\ UNCHANGED <<fsVars, tpc, cur, initst, initres, initret, taskVars>>

\* a destroy that does not wait for the contract's destroy
DestroyReturnDetached ==
    /\ tpc = "in_destroy"
    /\ tpc' = "destroyed"
    /\ UNCHANGED <<fsVars, cur, lifeVars, taskVars>>

\* block_on returns once the contract's destroy is complete
DestroyReturn ==
    /\ tpc = "in_destroy"
    /\ destroyst = "done"
    /\ tpc' = "destroyed"
    /\ UNCHANGED <<fsVars, cur, lifeVars, taskVars>>

\* after destroy the transport drops the AsyncFs value, and with it the
\* Arc the value holds
DropBridge ==
    /\ tpc = "destroyed"
    /\ tpc' = "dropped"
    /\ UNCHANGED <<fsVars, cur, lifeVars, taskVars>>

\* ------------------------------------------------------------ dispatching
\* req.unique()
Unique(r) == r

\* name.to_owned(), data.to_owned(): a new value holding a copy of the
\* borrowed bytes
ToOwned(b) == [i \in 1..Len(b) |-> b[i]]

\* self.0.clone(): a further owning reference to the filesystem
ArcClone == "arc"

\* a future that captures a plain reference to the filesystem, which does
\* not keep it alive
FutBorrowingFs(op, ino, n) ==
    [op |-> op, ino |-> ino, n |-> n, data |-> <<>>, fs |-> "ref"]

\* the future an entry point builds: the contract operation, the clone of
\* the Arc and the owned argument values moved into the async block
Fut(op, ino, n) ==
    [op |-> op, ino |-> ino, n |-> n, data |-> <<>>, fs |-> ArcClone]

\* the same for an entry point with a name, path or data argument: the
\* owned copy d is moved into the async block
FutOwned(op, ino, n, d) == [Fut(op, ino, n) EXCEPT !.data = d]

\* async_std::task::spawn: the task is handed to the executor, not yet polled
Spawn(r, kind, id, f) ==
    task' = [task EXCEPT ![r] = [st |-> "spawned", kind |-> kind, id |-> id,
                                 op |-> f.op, ino |-> f.ino, n |-> f.n,
                                 data |-> f.data, fs |-> f.fs]]

\* a spawn_reply that spawns the future bare, with no reply step after it
spawn_reply_bare(r, id, f) == Spawn(r, "noreply", id, f)

\* spawn_reply(id, reply, f): spawn a task that awaits f and then replies
spawn_reply(r, id, f) == Spawn(r, "reply", id, f)

\* an entry that admits one request at a time: it is refused while the
\* task of an earlier request is in flight
EnterThrottled(r, c) ==
    /\ tpc = "idle"
    /\ nreq + 1 \in DOMAIN call
    /\ \A q \in DOMAIN task : task[q].st \in {"none", "done"}
    /\ r = nreq + 1
    /\ nreq' = r
    /\ call' = [call EXCEPT ![r] = c]
    /\ tpc' = "in_entry"
    /\ cur' = r
    /\ UNCHANGED <<fsVars, lifeVars, invoked, res, sink>>

\* the transport thread enters an entry point with request r and arguments c
Enter(r, c) ==
    /\ tpc = "idle"
    /\ nreq + 1 \in DOMAIN call
    /\ r = nreq + 1
    /\ nreq' = r
    /\ call' = [call EXCEPT ![r] = c]
    /\ tpc' = "in_entry"
    /\ cur' = r
    /\ UNCHANGED <<fsVars, lifeVars, invoked, res, sink>>

\* the shape shared by every entry point that goes through spawn_reply
SpawnReplyEntry(op) ==
    \E ino \in Inos :
        /\ Enter(nreq + 1, [op |-> op, ino |-> ino, n |-> 0,
                           data |-> <<>>])
        /\ spawn_reply(nreq + 1, Unique(nreq + 1), Fut(op, ino, 0))

\* the shape of the entry points that get a name, a path or data by
\* reference: the bytes in the transport's buffer are copied with
\* to_owned() and the copy is moved into the future
SpawnReplyOwnedEntry(op) ==
    \E ino \in Inos :
        /\ Enter(nreq + 1, [op |-> op, ino |-> ino, n |-> 0, data |-> buf])
        /\ spawn_reply(nreq + 1, Unique(nreq + 1),
                       FutOwned(op, ino, 0, ToOwned(buf)))

\* a lookup spawned like forget, with the reply sink left behind
lookup_detached ==
    \E ino \in Inos :
        /\ Enter(nreq + 1, [op |-> "lookup", ino |-> ino, n |-> 0,
                           data |-> buf])
        /\ Spawn(nreq + 1, "noreply", 0,
                 FutOwned("lookup", ino, 0, ToOwned(buf)))

lookup == SpawnReplyOwnedEntry("lookup")

\* a forget dispatched like a replying request
forget_replying ==
    \E ino \in Inos, n \in 1..MaxLookup :
        /\ Enter(nreq + 1, [op |-> "forget", ino |-> ino, n |-> n,
                           data |-> <<>>])
        /\ spawn_reply(nreq + 1, Unique(nreq + 1), Fut("forget", ino, n))

\* a forget that keeps track of inode lifetimes in the bridge: besides
\* spawning its own task it discards the tasks on that inode that have not
\* started yet
forget_purging ==
    \E ino \in Inos, n \in 1..MaxLookup :
        /\ Enter(nreq + 1, [op |-> "forget", ino |-> ino, n |-> n,
                           data |-> <<>>])
        /\ task' = [r \in DOMAIN task |->
                       IF r = nreq + 1
                       THEN [st |-> "spawned", kind |-> "noreply", id |-> 0,
                             op |-> "forget", ino |-> ino, n |-> n,
                             data |-> <<>>, fs |-> ArcClone]
                       ELSE IF task[r].st = "spawned" /\ task[r].ino = ino
                            THEN NoTask
                            ELSE task[r]]

\* AsyncFs::forget: spawn without a reply sink
forget ==
    \E ino \in Inos, n \in 1..MaxLookup :
        /\ Enter(nreq + 1, [op |-> "forget", ino |-> ino, n |-> n,
                           data |-> <<>>])
        /\ Spawn(nreq + 1, "noreply", 0, Fut("forget", ino, n))

\* a getattr that replies under the identity of the request before it
getattr_stale_id ==
    \E ino \in Inos :
        /\ Enter(nreq + 1, [op |-> "getattr", ino |-> ino, n |-> 0,
                           data |-> <<>>])
        /\ spawn_reply(nreq + 1, Unique(nreq), Fut("getattr", ino, 0))

getattr == SpawnReplyEntry("getattr")
setattr == SpawnReplyEntry("setattr")
readlink == SpawnReplyEntry("readlink")
mknod == SpawnReplyOwnedEntry("mknod")
mkdir == SpawnReplyOwnedEntry("mkdir")
unlink == SpawnReplyOwnedEntry("unlink")
rmdir == SpawnReplyOwnedEntry("rmdir")
symlink == SpawnReplyOwnedEntry("symlink")
rename == SpawnReplyOwnedEntry("rename")
link == SpawnReplyOwnedEntry("link")
open == SpawnReplyEntry("open")
read == SpawnReplyEntry("read")
write == SpawnReplyOwnedEntry("write")
\* a flush that is coalesced with a flush still waiting to run: it spawns
\* nothing of its own
flush_coalesced ==
    \E ino \in Inos :
        /\ Enter(nreq + 1, [op |-> "flush", ino |-> ino, n |-> 0,
                           data |-> <<>>])
        /\ IF \E q \in DOMAIN task :
                  task[q].op = "flush" /\ task[q].st = "spawned"
           THEN UNCHANGED task
           ELSE spawn_reply(nreq + 1, Unique(nreq + 1), Fut("flush", ino, 0))

flush == SpawnReplyEntry("flush")
\* a release that invokes the contract's flush
release_as_flush ==
    \E ino \in Inos :
        /\ Enter(nreq + 1, [op |-> "release", ino |-> ino, n |-> 0,
                           data |-> <<>>])
        /\ spawn_reply(nreq + 1, Unique(nreq + 1), Fut("flush", ino, 0))

release == SpawnReplyEntry("release")
fsync == SpawnReplyEntry("fsync")
opendir == SpawnReplyEntry("opendir")

\* the shape of readdir and bmap: the sink is moved into the spawned future
StreamEntry(op) ==
    \E ino \in Inos :
        /\ Enter(nreq + 1, [op |-> op, ino |-> ino, n |-> 0,
                           data |-> <<>>])
        /\ Spawn(nreq + 1, "stream", 0, Fut(op, ino, 0))

readdir == StreamEntry("readdir")

\* impl Filesystem for AsyncFs defines no readdirplus: when the transport
\* delivers one, no code of the bridge runs, nothing is spawned and the
\* contract's readdirplus is not invoked (the request and its sink stay with
\* the transport library's own default for the entry point)
readdirplus ==
    \E ino \in Inos :
        /\ Enter(nreq + 1, [op |-> "readdirplus", ino |-> ino, n |-> 0,
                           data |-> <<>>])
        /\ UNCHANGED task

releasedir == SpawnReplyEntry("releasedir")
fsyncdir == SpawnReplyEntry("fsyncdir")
statfs == SpawnReplyEntry("statfs")
setxattr == SpawnReplyOwnedEntry("setxattr")

\* a getxattr that does not pass the requested size on: the operation is
\* invoked with size 0 whatever the transport asked for
getxattr_sizeless ==
    \E ino \in Inos, size \in XattrSizes :
        /\ Enter(nreq + 1, [op |-> "getxattr", ino |-> ino, n |-> size,
                           data |-> buf])
        /\ spawn_reply(nreq + 1, Unique(nreq + 1),
                       FutOwned("getxattr", ino, 0, ToOwned(buf)))

\* AsyncFs::getxattr: ino and size are moved into the future as they are,
\* the name as an owned copy
getxattr ==
    \E ino \in Inos, size \in XattrSizes :
        /\ Enter(nreq + 1, [op |-> "getxattr", ino |-> ino, n |-> size,
                           data |-> buf])
        /\ spawn_reply(nreq + 1, Unique(nreq + 1),
                       FutOwned("getxattr", ino, size, ToOwned(buf)))

\* AsyncFs::listxattr: ino and size are moved into the future as they are
listxattr ==
    \E ino \in Inos, size \in XattrSizes :
        /\ Enter(nreq + 1, [op |-> "listxattr", ino |-> ino, n |-> size,
                           data |-> <<>>])
        /\ spawn_reply(nreq + 1, Unique(nreq + 1),
                       Fut("listxattr", ino, size))

removexattr == SpawnReplyOwnedEntry("removexattr")
access == SpawnReplyEntry("access")
create == SpawnReplyOwnedEntry("create")
getlk == SpawnReplyEntry("getlk")
setlk == SpawnReplyEntry("setlk")
bmap == StreamEntry("bmap")

\* an entry point that joins the task it spawned before returning
EntryReturnJoin ==
    /\ tpc = "in_entry"
    /\ task[cur].st = "done"
    /\ tpc' = "idle"
    /\ cur' = 0
    /\ UNCHANGED <<fsVars, lifeVars, taskVars>>

\* an entry point returns to the transport right after spawning
EntryReturn ==
    /\ tpc = "in_entry"
    /\ tpc' = "idle"
    /\ cur' = 0
    /\ UNCHANGED <<fsVars, lifeVars, taskVars>>

\* ------------------------------------------------------------------ tasks
\* a task whose future holds a reference to the transport's buffer in place
\* of an owned copy: the operation reads the bytes the buffer holds when it
\* runs
TaskStartBorrowing(r) ==
    /\ task[r].st = "spawned"
    /\ task' = [task EXCEPT ![r].st = "awaiting"]
    /\ invoked' = [invoked EXCEPT ![r] =
                      [op |-> task[r].op, ino |-> task[r].ino,
                       n |-> task[r].n,
                       data |-> IF task[r].data = <<>> THEN <<>> ELSE buf]]
    /\ UNCHANGED <<fsVars, tpc, cur, lifeVars, nreq, call, res, sink>>

\* the executor polls a spawned task for the first time: the future starts
\* and invokes the contract operation with the captured arguments
TaskStart(r) ==
    /\ task[r].st = "spawned"
    /\ task' = [task EXCEPT ![r].st = "awaiting"]
    /\ invoked' = [invoked EXCEPT ![r] =
                      [op |-> task[r].op, ino |-> task[r].ino,
                       n |-> task[r].n, data |-> task[r].data]]
    /\ UNCHANGED <<fsVars, tpc, cur, lifeVars, nreq, call, res, sink>>

\* spawn_reply: `let result = f.await;` yields the operation's result; the
\* completed future f is dropped there, and with it the clone of the Arc
\* that was moved into it
OpReturn(r) ==
    /\ task[r].st = "awaiting"
    /\ task[r].kind = "reply"
    /\ \E x \in OpOutcomes(invoked[r]) : res' = [res EXCEPT ![r] = x]
    /\ task' = [task EXCEPT ![r].st = "completed", ![r].fs = "released"]
    /\ UNCHANGED <<fsVars, tpc, cur, lifeVars, nreq, call, invoked, sink>>

\* a reply step that answers only a success and ends silently on a failure
TaskReplyOkOnly(r) ==
    /\ task[r].st = "completed"
    /\ sink' = [sink EXCEPT ![r] =
                   IF res[r].tag = "ok"
                   THEN Append(@, FsReply(task[r].id, res[r]))
                   ELSE @]
    /\ task' = [task EXCEPT ![r].st = "done"]
    /\ UNCHANGED <<fsVars, tpc, cur, lifeVars, nreq, call, invoked, res>>

\* a reply step cancelled once the filesystem has been destroyed
TaskReplyUnlessDestroyed(r) ==
    /\ task[r].st = "completed"
    /\ tpc \notin {"destroyed", "dropped"}
    /\ sink' = [sink EXCEPT ![r] = Append(@, FsReply(task[r].id, res[r]))]
    /\ task' = [task EXCEPT ![r].st = "done"]
    /\ UNCHANGED <<fsVars, tpc, cur, lifeVars, nreq, call, invoked, res>>

\* a reply step that waits for every earlier request to have finished
TaskReplyInOrder(r) ==
    /\ task[r].st = "completed"
    /\ \A q \in Reqs : q < r => task[q].st = "done"
    /\ sink' = [sink EXCEPT ![r] = Append(@, FsReply(task[r].id, res[r]))]
    /\ task' = [task EXCEPT ![r].st = "done"]
    /\ UNCHANGED <<fsVars, tpc, cur, lifeVars, nreq, call, invoked, res>>

\* spawn_reply: `reply.reply(id, result);` and the task ends
\* a reply step that does not await the operation: it answers as soon as the
\* task runs, with success if the operation has not returned yet
TaskReplyEager(r) ==
    /\ task[r].st \in {"awaiting", "completed"}
    /\ task[r].kind = "reply"
    /\ sink' = [sink EXCEPT ![r] =
                   Append(@, FsReply(task[r].id,
                                     IF task[r].st = "completed"
                                     THEN res[r] ELSE Ok(<<>>)))]
    /\ task' = [task EXCEPT ![r].st = "done"]
    /\ UNCHANGED <<fsVars, tpc, cur, lifeVars, nreq, call, invoked, res>>

\* a reply step that holds a per-inode lock: it waits while another request
\* on the same inode is still in flight
TaskReplyPerInode(r) ==
    /\ task[r].st = "completed"
    /\ \A q \in Reqs \ {r} :
           task[q].ino = task[r].ino => task[q].st \in {"none", "done"}
    /\ sink' = [sink EXCEPT ![r] = Append(@, FsReply(task[r].id, res[r]))]
    /\ task' = [task EXCEPT ![r].st = "done"]
    /\ UNCHANGED <<fsVars, tpc, cur, lifeVars, nreq, call, invoked, res>>

TaskReply(r) ==
    /\ task[r].st = "completed"
    /\ sink' = [sink EXCEPT ![r] = Append(@, FsReply(task[r].id, res[r]))]
    /\ task' = [task EXCEPT ![r].st = "done"]
    /\ UNCHANGED <<fsVars, tpc, cur, lifeVars, nreq, call, invoked, res>>

\* forget's task: the operation returns nothing and the task ends
ForgetDone(r) ==
    /\ task[r].st = "awaiting"
    /\ task[r].kind = "noreply"
    /\ res' = [res EXCEPT ![r] = Unit]
    /\ task' = [task EXCEPT ![r].st = "done", ![r].fs = "released"]
    /\ UNCHANGED <<fsVars, tpc, cur, lifeVars, nreq, call, invoked, sink>>

\* readdir's and bmap's task: the operation, which owns the sink, returns
\* and the task ends
StreamDone(r) ==
    /\ task[r].st = "awaiting"
    /\ task[r].kind = "stream"
    /\ \E s \in StreamOutcomes(task[r].op, Unique(r)) :
           sink' = [sink EXCEPT ![r] = @ \o s]
    /\ res' = [res EXCEPT ![r] = Unit]
    /\ task' = [task EXCEPT ![r].st = "done", ![r].fs = "released"]
    /\ UNCHANGED <<fsVars, tpc, cur, lifeVars, nreq, call, invoked>>

Next ==
    \/ InitCall \/ InitComplete \/ InitReturn
    \/ DestroyCall \/ DestroyComplete \/ DestroyReturn \/ DropBridge
    \/ lookup \/ forget \/ getattr \/ setattr \/ readlink \/ mknod \/ mkdir
    \/ unlink \/ rmdir \/ symlink \/ rename \/ link \/ open \/ read \/ write
    \/ flush \/ release \/ fsync \/ opendir \/ readdir \/ readdirplus
    \/ releasedir
    \/ fsyncdir \/ statfs \/ setxattr \/ getxattr \/ listxattr
    \/ removexattr \/ access \/ create \/ getlk \/ setlk \/ bmap
    \/ EntryReturn
    \/ \E r \in Reqs : TaskStart(r)
    \/ \E r \in Reqs : OpReturn(r)
    \/ \E r \in Reqs : TaskReply(r)
    \/ \E r \in Reqs : ForgetDone(r)
    \/ \E r \in Reqs : StreamDone(r)

Spec == Init /\ [][Next]_vars

\* The executor keeps polling runnable tasks: a spawned task is eventually
\* started, and a task whose awaited operation has returned goes on to its
\* reply call.  Nothing is assumed about how long an operation stays
\* suspended, nor about the transport thread.
FairSpec ==
    Spec /\ \A r \in Reqs : WF_vars(TaskStart(r)) /\ WF_vars(TaskReply(r))

\* ------------------------------------------- the contract, invoked directly
\* what invoking op on the filesystem produces: the returned Result (or
\* nothing), or for a method that takes the sink, the calls made on it
InvokeOutcomes(op) ==
    IF op \in AsyncUnitOps THEN {<<Unit>>}
    ELSE IF op \in AsyncResultOps THEN {<<x>> : x \in ContractOutcomes(op)}
    ELSE IF op \in overridden THEN StreamOutcomes(op, 0)
    ELSE {<<DefaultResult(op)>>}

Invoke ==
    \E op \in ContractOps, ino \in Inos :
        \E o \in InvokeOutcomes(op) :
            /\ probe' = [op |-> op, ino |-> ino, out |-> o]
            /\ UNCHANGED <<overridden, buf, stored, tpc, cur, lifeVars, taskVars>>

ContractSpec == Init /\ [][Invoke]_vars

\* ------------------------------------------- calls on one open file
\* The transport's calls on one open instance: an open; once it has been
\* answered with success, flushes of that inode; then one release, after
\* which the instance gets no further call.
OpenSucceeded ==
    /\ nreq >= 1
    /\ call[1].op = "open"
    /\ sink[1] # <<>>
    /\ sink[1][1].kind = "ok"

ReleaseCalled == \E r \in DOMAIN call : call[r].op = "release"

HandleOpen == nreq = 0 /\ open

HandleFlush ==
    /\ OpenSucceeded
    /\ ~ReleaseCalled
    /\ flush
    /\ call'[nreq'].ino = call[1].ino

HandleRelease ==
    /\ OpenSucceeded
    /\ ~ReleaseCalled
    /\ release
    /\ call'[nreq'].ino = call[1].ino

HandleNext ==
    \/ InitCall \/ InitComplete \/ InitReturn
    \/ HandleOpen \/ HandleFlush \/ HandleRelease
    \/ EntryReturn
    \/ \E r \in 1..MaxSeq : TaskStart(r)
    \/ \E r \in 1..MaxSeq : OpReturn(r)
    \/ \E r \in 1..MaxSeq : TaskReply(r)

HandleSpec == Start(1..MaxSeq) /\ [][HandleNext]_vars

\* ------------------------------------------------ extended attributes
\* the bridge over the trait with no override, which stores nothing, or over
\* a filesystem that stores one extended attribute value
XattrInit ==
    /\ overridden \in {{}, XattrOverride}
    /\ stored \in (IF overridden = {} THEN {<<>>} ELSE XattrValues)
    /\ buf = <<>>
    /\ probe = NoProbe
    /\ tpc = "unmounted"
    /\ cur = 0
    /\ initst = "none"
    /\ initres = NoResult
    /\ initret = NoRet
    /\ destroyst = "none"
    /\ nreq = 0
    /\ call = [r \in Reqs |-> NoCall]
    /\ task = [r \in Reqs |-> NoTask]
    /\ invoked = [r \in Reqs |-> NoCall]
    /\ res = [r \in Reqs |-> NoResult]
    /\ sink = [r \in Reqs |-> <<>>]

\* getxattr and listxattr requests of every size dispatched through the
\* bridge, and the tasks they spawn
XattrNext ==
    \/ InitCall \/ InitComplete \/ InitReturn
    \/ getxattr \/ listxattr
    \/ EntryReturn
    \/ \E r \in Reqs : TaskStart(r)
    \/ \E r \in Reqs : OpReturn(r)
    \/ \E r \in Reqs : TaskReply(r)

XattrSpec == XattrInit /\ [][XattrNext]_vars

\* ------------------------------------------------ borrowed arguments
\* contents of the transport's buffer
BufChoices == {<<b>> : b \in 1..MaxByte}

\* between two calls the transport reads the next request into its buffer,
\* overwriting the bytes of the previous one
Receive ==
    /\ tpc = "idle"
    /\ \E b \in BufChoices : buf' = b
    /\ UNCHANGED <<overridden, probe, stored, tpc, cur, lifeVars, taskVars>>

\* the entry points with a borrowed argument, called with what the buffer
\* holds, and the tasks they spawn
BufNext ==
    \/ InitCall \/ InitComplete \/ InitReturn
    \/ Receive
    \/ lookup \/ mknod \/ mkdir \/ unlink \/ rmdir \/ symlink \/ rename
    \/ link \/ write \/ setxattr \/ getxattr \/ removexattr \/ create
    \/ EntryReturn
    \/ \E r \in Reqs : TaskStart(r)
    \/ \E r \in Reqs : OpReturn(r)
    \/ \E r \in Reqs : TaskReply(r)

BufSpec == Init /\ [][BufNext]_vars

\* ================================================================ claims
\* entry points of the bridge, by how they dispatch
ReplyingEntryPoints ==
    {"lookup", "getattr", "setattr", "readlink", "mknod", "mkdir", "unlink",
     "rmdir", "symlink", "rename", "link", "open", "read", "write", "flush",
     "release", "fsync", "opendir", "readdir", "releasedir", "fsyncdir",
     "statfs", "setxattr", "getxattr", "listxattr", "removexattr", "access",
     "create", "getlk", "setlk", "bmap"}
StreamingEntryPoints == {"readdir", "bmap"}
SpawnReplyEntryPoints == ReplyingEntryPoints \ StreamingEntryPoints

\* C1 as stated: for every request of every entry point except forget, init
\* and destroy, at most one reply call is ever made on its sink, and exactly
\* one has been made once its task has finished.
C1_AsStated ==
    \A r \in Reqs :
        call[r].op \in ReplyingEntryPoints =>
            /\ Len(sink[r]) <= 1
            /\ task[r].st = "done" => Len(sink[r]) = 1

\* C1 amended: for every request of an entry point that dispatches through
\* spawn_reply, at most one reply call is ever made on its sink, none before
\* the operation has returned, and exactly one once its task has finished,
\* whether the operation returned success or failure.  For readdir and bmap,
\* whose sink is moved into the contract operation, at most one reply call is
\* made and none by the bridge: the sink is untouched until the operation
\* has run.
C1_ExactlyOneReply ==
    \A r \in Reqs :
        /\ call[r].op \in SpawnReplyEntryPoints =>
               /\ Len(sink[r]) <= 1
               /\ task[r].st = "done" <=> Len(sink[r]) = 1
        /\ call[r].op \in StreamingEntryPoints =>
               /\ Len(sink[r]) <= 1
               /\ invoked[r] = NoCall => Len(sink[r]) = 0

\* two finished requests, one whose operation succeeded and one whose
\* operation failed, each with its one reply
C1_Witness ==
    \E a, b \in Reqs :
        /\ task[a].st = "done" /\ task[b].st = "done"
        /\ call[a].op \in SpawnReplyEntryPoints
        /\ call[b].op \in SpawnReplyEntryPoints
        /\ res[a].tag = "ok" /\ res[b].tag = "err"
        /\ Len(sink[a]) = 1 /\ Len(sink[b]) = 1

\* C2: under fair scheduling of spawned tasks, every request dispatched
\* through spawn_reply whose contract operation completes eventually has its
\* reply delivered; and no step removes or rewinds a scheduled task before it
\* has replied (no cancellation, no timeout).
C2_CompletedIsReplied ==
    /\ \A r \in Reqs :
           (task[r].kind = "reply" /\ task[r].st = "completed")
               ~> (task[r].st = "done" /\ Len(sink[r]) = 1)
    /\ [][\A r \in Reqs :
              /\ task[r].st = "spawned" =>
                     task'[r].st \in {"spawned", "awaiting"}
              /\ task[r].st = "awaiting" =>
                     task'[r].st \in {"awaiting", "completed", "done"}
              /\ task[r].st = "completed" =>
                     task'[r].st \in {"completed", "done"}]_vars

\* a spawn_reply task whose operation was invoked, has returned, and whose
\* reply is delivered after the transport has already been torn down
C2_Witness ==
    \E r \in Reqs :
        /\ task[r].kind = "reply"
        /\ task[r].st = "done"
        /\ invoked[r].op = call[r].op
        /\ Len(sink[r]) = 1
        /\ tpc = "destroyed"

\* C3: an entry point other than init and destroy never waits for the
\* operation it scheduled: whenever the transport thread is inside such an
\* entry point, its return is possible at once, whatever state the scheduled
\* task is in.
C3_EntryReturnsWithoutWaiting ==
    tpc = "in_entry" => ENABLED EntryReturn

\* the transport thread is back from two entry points while one operation
\* has not started and the other is still suspended
C3_Witness ==
    \E a, b \in Reqs :
        /\ tpc = "idle"
        /\ task[a].st = "spawned"
        /\ task[b].st = "awaiting"

\* C4: with two requests in flight against distinct inodes, once B's
\* operation has returned while A's is still suspended, B's reply is
\* delivered, also when A stays suspended forever; for every pair of entry
\* points and either dispatch order.
C4_IndependentReplies ==
    \A a, b \in Reqs :
        (/\ a # b
         /\ call[a].ino # call[b].ino
         /\ task[a].st = "awaiting"
         /\ task[b].kind = "reply"
         /\ task[b].st = "completed")
            ~> (Len(sink[b]) = 1)

\* B, dispatched after A against another inode, has been replied to while
\* A's operation is still suspended
C4_Witness ==
    \E a, b \in Reqs :
        /\ a < b
        /\ call[a].ino # call[b].ino
        /\ task[a].st = "awaiting"
        /\ task[b].kind = "reply"
        /\ Len(sink[b]) = 1

\* operations the claim names as defaulting to success
C5_StatedSuccessDefaults == {"open", "opendir", "release", "releasedir"}

\* C5 as stated: every contract operation the filesystem does not override
\* yields the not-implemented failure when invoked, except open, opendir,
\* release and releasedir, which yield success.  Read here in its most
\* lenient form: only for the operations that answer a request, leaving out
\* init, destroy and forget.
C5_AsStated ==
    (/\ probe.op # "none"
     /\ probe.op \notin overridden
     /\ probe.op \notin {"init", "destroy", "forget"}) =>
        IF probe.op \in C5_StatedSuccessDefaults
        THEN Len(probe.out) = 1 /\ probe.out[1].tag = "ok"
        ELSE probe.out = <<Err(FsErrorUnimplemented)>>

\* C5 amended: every contract operation the filesystem does not override
\* yields the not-implemented failure when invoked, except open, opendir
\* (handle 0, flags 0), release, releasedir, init and statfs (a zero-filled
\* statistics reply with block size 512 and name length 255), which yield
\* success, and destroy and forget, which return nothing and cannot fail.
C5_Defaults ==
    (probe.op # "none" /\ probe.op \notin overridden) =>
        CASE probe.op \in {"open", "opendir"} ->
                 probe.out = <<Ok(<<0, 0>>)>>
          [] probe.op \in {"release", "releasedir", "init"} ->
                 probe.out = <<Ok(<<>>)>>
          [] probe.op = "statfs" ->
                 probe.out = <<Ok(<<0, 0, 0, 0, 0, 512, 255, 0>>)>>
          [] probe.op \in {"destroy", "forget"} ->
                 probe.out = <<Unit>>
          [] OTHER ->
                 probe.out = <<Err("Unimplemented")>>

\* statfs invoked on a filesystem that overrides nothing answers success
C5_Witness ==
    /\ overridden = {}
    /\ probe.op = "statfs"
    /\ probe.out[1].tag = "ok"

\* C6: a forget notification is scheduled as a task of its own, that task
\* invokes the contract's forget with the inode and lookup count the
\* transport gave, and no reply call is ever made for it.
C6_ForgetNoReply ==
    \A r \in Reqs :
        call[r].op = "forget" =>
            /\ task[r].st # "none"
            /\ sink[r] = <<>>
            /\ task[r].st \in {"awaiting", "done"} =>
                   invoked[r] = [op |-> "forget", ino |-> call[r].ino,
                                 n |-> call[r].n, data |-> <<>>]

\* a forget for inode 1 with lookup count 2 has run to its end beside another
\* request that was replied to
C6_Witness ==
    \E r, q \in Reqs :
        /\ call[r] = [op |-> "forget", ino |-> 1, n |-> 2, data |-> <<>>]
        /\ task[r].st = "done"
        /\ invoked[r].op = "forget"
        /\ q # r /\ Len(sink[q]) = 1

\* C7: the bridge's init does not return before the contract's init has
\* completed; it returns success when that succeeded, and the error code
\* mapped from the failure, with the mount aborted, when it failed.
C7_InitBlocksAndMaps ==
    /\ tpc \notin {"unmounted", "in_init"} =>
           /\ initst = "done"
           /\ initres.tag \in {"ok", "err"}
           /\ initres.tag = "ok" =>
                  initret = [tag |-> "ok", code |-> 0] /\ tpc # "aborted"
           /\ initres.tag = "err" =>
                  /\ initret = [tag |-> "err", code |-> ErrnoOf(initres.err)]
                  /\ tpc = "aborted"
    /\ tpc \in {"unmounted", "in_init"} => initret = NoRet

\* init failed with an I/O failure and the mount was aborted with its code
C7_Witness ==
    /\ tpc = "aborted"
    /\ initres = Err("Io")
    /\ initret.code = EIO

\* C8: no spawned task exists, and no contract operation has been invoked,
\* unless the contract's init has completed, successfully.
C8_InitBeforeOperations ==
    \A r \in Reqs :
        (task[r].st # "none" \/ invoked[r].op # "none") =>
            initst = "done" /\ initres.tag = "ok"

\* an operation is executing after an overriding init has completed
C8_Witness ==
    \E r \in Reqs :
        /\ "init" \in overridden
        /\ initst = "done"
        /\ task[r].st = "awaiting"
        /\ invoked[r].op = call[r].op

\* C9: destroy returns only after the contract's destroy has completed, the
\* steps of destroy make no reply call on any sink, and the only way out of
\* destroy is the plain return (there is no failure outcome).
C9_DestroyRunsToCompletion ==
    [][/\ tpc' = "destroyed" => destroyst' = "done"
       /\ ((tpc = "in_destroy" \/ tpc' = "in_destroy")
              /\ (tpc # tpc' \/ destroyst # destroyst')) => sink' = sink
       /\ (tpc = "in_destroy" /\ tpc' # tpc) => tpc' = "destroyed"
       /\ tpc = "destroyed" => tpc' \in {"destroyed", "dropped"}
       /\ tpc = "dropped" => tpc' = "dropped"]_vars

\* destroy of an overriding filesystem has returned
C9_Witness ==
    /\ tpc = "destroyed"
    /\ destroyst = "done"
    /\ "destroy" \in overridden

\* C10: the one reply of a finished spawn_reply request is the failure reply
\* carrying the code mapped from the failure the operation returned, or the
\* success reply carrying the payload it returned; the task never ends
\* without that reply.
C10_ReplyMatchesResult ==
    \A r \in Reqs :
        (call[r].op \in SpawnReplyEntryPoints /\ task[r].st = "done") =>
            /\ res[r].tag \in {"ok", "err"}
            /\ res[r].tag = "err" =>
                   sink[r] = <<[kind |-> "error", id |-> Unique(r),
                                val |-> <<>>, code |-> ErrnoOf(res[r].err)]>>
            /\ res[r].tag = "ok" =>
                   sink[r] = <<[kind |-> "ok", id |-> Unique(r),
                                val |-> res[r].val, code |-> 0]>>

\* an overriding operation failed with an I/O failure and was replied with
\* its code, and a default opendir was replied with its payload
C10_Witness ==
    \E a, b \in Reqs :
        /\ res[a] = Err("Io")
        /\ sink[a] = <<ReplyError(Unique(a), EIO)>>
        /\ call[b].op = "opendir"
        /\ sink[b] = <<ReplyOk(Unique(b), <<0, 0>>)>>

\* C12: a lookup dispatched on a filesystem that does not override lookup
\* is answered exactly once, by an error reply that carries the request's id
\* and the not-implemented code: nothing else is ever on its sink, and the
\* reply is there when the task has finished.
C12_LookupDefault ==
    \A r \in Reqs :
        (call[r].op = "lookup" /\ "lookup" \notin overridden) =>
            /\ sink[r] \in {<<>>, <<ReplyError(Unique(r), ENOSYS)>>}
            /\ (task[r].st = "done"
                    => sink[r] = <<ReplyError(Unique(r), ENOSYS)>>)
            /\ (sink[r] # <<>> => invoked[r].op = "lookup")

\* a default lookup has been dispatched, has run and has been answered
C12_Witness ==
    \E r \in Reqs :
        /\ "lookup" \notin overridden
        /\ call[r].op = "lookup"
        /\ invoked[r].op = "lookup"
        /\ res[r] = Err(FsErrorUnimplemented)
        /\ task[r].st = "done"
        /\ sink[r] = <<ReplyError(Unique(r), ENOSYS)>>

\* C13: on a filesystem with no overrides an open is answered with handle 0
\* and open-flags 0 and a release is answered with success, each exactly
\* once, for every inode and however the two tasks and the transport thread
\* interleave.
C13_DefaultOpenRelease ==
    overridden = {} =>
        \A r \in Reqs :
            /\ call[r].op = "open" =>
                   /\ sink[r] \in {<<>>, <<ReplyOk(Unique(r), <<0, 0>>)>>}
                   /\ (task[r].st = "done" => sink[r] # <<>>)
            /\ call[r].op = "release" =>
                   /\ sink[r] \in {<<>>, <<ReplyOk(Unique(r), <<>>)>>}
                   /\ (task[r].st = "done" => sink[r] # <<>>)

\* an open answered with handle 0 and flags 0, and after it a release of
\* the same inode answered with success
C13_Witness ==
    \E a, b \in Reqs :
        /\ overridden = {}
        /\ a < b
        /\ call[a].op = "open" /\ call[b].op = "release"
        /\ call[a].ino = call[b].ino
        /\ sink[a] = <<ReplyOk(Unique(a), OpenNew(0, 0))>>
        /\ sink[b] = <<ReplyOk(Unique(b), <<>>)>>

\* the operations the specification calls streaming
StreamingOperations == {"readdir", "readdirplus", "bmap"}

\* C14: for readdir, readdirplus and bmap the bridge moves the reply sink
\* into the task it schedules and makes no reply call itself: every such
\* request delivered by the transport has a task of the streaming shape
\* that invokes the matching contract operation, and nothing is on the sink
\* unless that operation has been invoked.
C14_StreamingSinkMoved ==
    \A r \in Reqs :
        call[r].op \in StreamingOperations =>
            /\ task[r].kind = "stream"
            /\ task[r].op = call[r].op
            /\ (sink[r] # <<>> => invoked[r].op = call[r].op)

\* C15: the bridge imposes no order between the replies of requests in
\* flight together.  Whenever a task's operation has returned, its reply
\* step can be taken at once, whatever state any other task is in and
\* wherever the transport thread is, for the same inode as for different
\* ones; so of two completed requests either may be answered first.
C15_NoReplyOrder ==
    \A a \in Reqs :
        /\ task[a].st = "completed" => ENABLED TaskReply(a)
        /\ (task[a].st = "awaiting" /\ task[a].kind = "stream")
               => ENABLED StreamDone(a)

\* two requests on the same inode in flight together, and the one
\* dispatched later has been answered while the earlier one, whose
\* operation has returned as well, has not
C15_Witness ==
    \E a, b \in Reqs :
        /\ a < b
        /\ call[a].ino = call[b].ino
        /\ task[a].st = "completed" /\ sink[a] = <<>>
        /\ task[b].st = "done" /\ Len(sink[b]) = 1

\* requests the transport made of an operation, and those for which the
\* contract operation was invoked
Called(op) == {r \in DOMAIN call : call[r].op = op}
Invoked(op) == {r \in DOMAIN invoked : invoked[r].op = op}

\* every spawned task has been polled
AllTasksStarted == \A r \in DOMAIN task : task[r].st # "spawned"

\* C16: over the calls on one open instance (a successful open, then
\* flushes, then one release) the contract's flush and release are invoked
\* only for a flush, respectively release, call of the transport and with
\* its arguments, never more often than called, and once the tasks have run
\* release has been invoked exactly once per release call and flush exactly
\* as many times as the transport called flush.
C16_FlushReleaseCounts ==
    /\ Cardinality(Called("release")) <= 1
    /\ \A op \in {"flush", "release"} :
           /\ Invoked(op) \subseteq Called(op)
           /\ \A r \in Invoked(op) : invoked[r] = call[r]
           /\ AllTasksStarted => Invoked(op) = Called(op)

\* open answered with success, two flushes and then the release, and the
\* contract's flush was invoked twice and its release once
C16_Witness ==
    /\ OpenSucceeded
    /\ Cardinality(Called("flush")) = 2
    /\ Cardinality(Invoked("flush")) = 2
    /\ Cardinality(Called("release")) = 1
    /\ Cardinality(Invoked("release")) = 1
    /\ call[nreq].op = "release"

\* the entry points impl Filesystem for AsyncFs defines, lifecycle aside
DispatchEntryPoints == ReplyingEntryPoints \cup {"forget"}

\* C17: the bridge keeps no mutable state.  No step changes what the
\* AsyncFs value refers to; a dispatch adds exactly one scheduled task and
\* touches nothing else (no other task, no invocation, result or reply of
\* any request, nothing of the lifecycle); and returning from an entry
\* point changes nothing but the transport thread's position.
C17_BridgeStateless ==
    [][/\ overridden' = overridden
       /\ (nreq' # nreq /\ call'[nreq'].op \in DispatchEntryPoints) =>
              /\ nreq' = nreq + 1
              /\ task[nreq'] = NoTask
              /\ task'[nreq'].st = "spawned"
              /\ \A r \in Reqs \ {nreq'} :
                     task'[r] = task[r] /\ call'[r] = call[r]
              /\ UNCHANGED <<invoked, res, sink, lifeVars>>
       /\ (tpc = "in_entry" /\ tpc' = "idle") =>
              UNCHANGED <<fsVars, lifeVars, taskVars>>
      ]_vars

\* a request has been dispatched while another request's task had not
\* started, and that task is still there, about to start
C17_Witness ==
    \E a, b \in Reqs :
        /\ a < b
        /\ call[b].op = "forget"
        /\ call[a].ino = call[b].ino
        /\ task[a].st = "spawned"
        /\ task[b].st = "spawned"
        /\ tpc = "idle"

BorrowingEntryPoints ==
    {"lookup", "mknod", "mkdir", "unlink", "rmdir", "symlink", "rename",
     "link", "write", "setxattr", "getxattr", "removexattr", "create"}

\* C19: an entry point that receives borrowed input moves an owned copy of
\* it into the task, so the contract operation is invoked with the bytes the
\* transport's buffer held when the entry point was called, also when the
\* transport has overwritten the buffer before the task runs.
C19_OwnedCopies ==
    \A r \in Reqs :
        call[r].op \in BorrowingEntryPoints =>
            /\ task[r].st # "none" => task[r].data = call[r].data
            /\ invoked[r] # NoCall => invoked[r] = call[r]

\* a write called with one content has been invoked with it although the
\* transport had put another content into its buffer for the next request
\* before the write's task started
C19_Witness ==
    \E a, b \in Reqs :
        /\ a < b
        /\ call[a].op = "write" /\ call[a].data = <<1>>
        /\ call[b].data = <<2>> /\ buf = <<2>>
        /\ invoked[a].data = <<1>>
        /\ invoked[b] = NoCall
        /\ task[b].st = "spawned"

\* tasks in flight, and dispatched requests whose task has not finished
TasksInFlight ==
    {r \in Reqs : task[r].st \in {"spawned", "awaiting", "completed"}}
Unfinished ==
    {r \in 1..nreq :
        call[r].op \in DispatchEntryPoints /\ task[r].st # "done"}

\* C20: every call of an entry point other than init and destroy has
\* scheduled exactly one task, for the contract operation matching the
\* entry point, and that task invokes this operation and no other, with the
\* call's arguments; there is no task without a call; the tasks in flight
\* are exactly the dispatched requests whose task has not finished; and
\* while the transport thread is between calls a dispatch is possible
\* whatever the tasks in flight are doing.
C20_OneTaskPerRequest ==
    /\ \A r \in Reqs :
           /\ call[r].op \in DispatchEntryPoints =>
                  /\ task[r].st # "none"
                  /\ task[r].op = call[r].op
                  /\ invoked[r] \in {NoCall, call[r]}
                  /\ (task[r].st \in {"awaiting", "completed", "done"}
                         => invoked[r] = call[r])
           /\ call[r] = NoCall => (task[r] = NoTask /\ invoked[r] = NoCall)
    /\ TasksInFlight = Unfinished
    /\ (tpc = "idle" /\ nreq < MaxReq) =>
           (ENABLED getattr /\ ENABLED forget /\ ENABLED readdir)

\* a request is dispatched while the task of the request before it is
\* still in flight, and both tasks are there
C20_Witness ==
    /\ nreq = 2
    /\ tpc = "in_entry"
    /\ cur = 2
    /\ task[1].st \in {"spawned", "awaiting", "completed"}
    /\ task[2].st = "spawned"
    /\ call[2].op \in DispatchEntryPoints
    /\ TasksInFlight = {1, 2}

\* C21: whatever is on the sink of request r carries r's identity, and a
\* reply made by spawn_reply's task is the conversion of the result of the
\* operation that was invoked with r's own arguments: with several requests
\* in flight no result reaches another request's sink or goes out under
\* another request's identity.
C21_ReplyIdentity ==
    \A r \in Reqs :
        /\ \A i \in 1..Len(sink[r]) : sink[r][i].id = Unique(r)
        /\ (sink[r] # <<>> /\ task[r].kind = "reply") =>
               /\ invoked[r] = call[r]
               /\ sink[r] = <<FsReply(Unique(r), res[r])>>
        /\ (sink[r] # <<>> /\ task[r].kind = "stream") =>
               invoked[r] = call[r]

\* two requests in flight together whose operations returned different
\* results: one has been answered, the other's reply is still to be made
C21_Witness ==
    \E a, b \in Reqs :
        /\ a # b
        /\ call[a].op = "getattr"
        /\ task[a].st = "done"
        /\ sink[a] = <<FsReply(Unique(a), res[a])>>
        /\ task[b].st = "completed"
        /\ res[b] # res[a]
        /\ sink[b] = <<>>

\* owning references to the filesystem: the one in the AsyncFs value until
\* it is dropped, and one in every task whose future still holds the clone
\* it captured (the future is dropped when its await completes)
StrongCount ==
    (IF tpc = "dropped" THEN 0 ELSE 1)
    + Cardinality({r \in DOMAIN task : task[r].fs = ArcClone})

\* the filesystem is freed when the last owning reference goes
FsAlive == StrongCount > 0

\* C22 as stated: the filesystem is alive for as long as any task is in
\* flight, that is, has been spawned and has not finished.
C22_AsStated ==
    \A r \in Reqs :
        task[r].st \in {"spawned", "awaiting", "completed"} => FsAlive

\* C22: every task holds an owning reference of its own to the filesystem
\* from the moment it is spawned inside the entry point until its
\* operation's future has completed; so the filesystem is alive whenever a
\* task's operation has not yet completed, after the entry point has
\* returned and after the AsyncFs value has been dropped as well.  Once the
\* operation has returned the task holds no reference any more.
C22_FsOutlivesBridge ==
    \A r \in Reqs :
        /\ task[r].st \in {"spawned", "awaiting"} =>
               /\ task[r].fs = ArcClone
               /\ FsAlive
        /\ task[r].st \in {"completed", "done"} => task[r].fs = "released"

\* the AsyncFs value has been dropped while a task was still in flight,
\* and that task's reference is the only one left
C22_Witness ==
    /\ tpc = "dropped"
    /\ StrongCount = 1
    /\ \E r \in Reqs : call[r].op = "lookup" /\ task[r].st = "awaiting"

\* C23: in a task scheduled by spawn_reply the reply comes after the
\* operation's future has completed.  While the operation has not started
\* or is still suspended, or has returned but the reply call is not yet
\* made, the request's sink is empty; a reply on the sink means that the
\* operation was invoked and returned a result; and the step that makes the
\* reply starts from a task whose operation has returned.
C23_ReplyAfterCompletion ==
    /\ [](\A r \in Reqs :
             task[r].kind = "reply" =>
                 /\ task[r].st \in {"spawned", "awaiting", "completed"}
                        => sink[r] = <<>>
                 /\ task[r].st \in {"spawned", "awaiting"}
                        => res[r] = NoResult
                 /\ sink[r] # <<>> =>
                        /\ task[r].st = "done"
                        /\ invoked[r] # NoCall
                        /\ res[r].tag \in {"ok", "err"})
    /\ [][\A r \in Reqs :
             (task[r].kind = "reply" /\ sink'[r] # sink[r]) =>
                 /\ task[r].st = "completed"
                 /\ res'[r] = res[r]
                 /\ res[r].tag \in {"ok", "err"}]_vars

\* an operation is suspended with no reply on its sink, while the request
\* dispatched after it has already been answered
C23_Witness ==
    \E a, b \in Reqs :
        /\ a < b
        /\ task[a].kind = "reply" /\ task[a].st = "awaiting"
        /\ sink[a] = <<>>
        /\ task[b].kind = "reply" /\ task[b].st = "done"
        /\ sink[b] = <<FsReply(Unique(b), res[b])>>

\* the transport thread is in destroy or past it
InOrAfterDestroy == tpc \in {"in_destroy", "destroyed", "dropped"}

\* C24: destroy neither waits for nor cancels the tasks dispatched before
\* it.  It can be called whenever the transport thread is between calls,
\* whatever tasks are in flight, and it returns as soon as the contract's
\* destroy has completed; its steps leave every task, result and sink as
\* they are; during and after destroy a task in flight can still take its
\* next step (start its operation, have it return, make its reply); and a
\* task whose operation has completed by then does make its one reply.
C24_DestroyLeavesTasks ==
    /\ [](/\ tpc = "idle" => ENABLED DestroyCall
          /\ (tpc = "in_destroy" /\ destroyst = "done")
                 => ENABLED DestroyReturn
          /\ InOrAfterDestroy =>
                 \A r \in Reqs :
                     /\ task[r].st = "spawned" => ENABLED TaskStart(r)
                     /\ (task[r].st = "awaiting" /\ task[r].kind = "reply")
                            => ENABLED OpReturn(r)
                     /\ task[r].st = "completed" => ENABLED TaskReply(r))
    /\ [][(tpc' # tpc /\ (InOrAfterDestroy \/ InOrAfterDestroy'))
              => UNCHANGED taskVars]_vars
    /\ [][(destroyst' # destroyst) => UNCHANGED taskVars]_vars
    /\ \A r \in Reqs :
           (InOrAfterDestroy /\ task[r].st = "completed")
               ~> (task[r].st = "done" /\ Len(sink[r]) = 1)

\* destroy has returned while one task dispatched before it is still
\* running its operation and another has its reply still to make
C24_Witness ==
    \E a, b \in Reqs :
        /\ tpc = "destroyed"
        /\ destroyst = "done"
        /\ task[a].st = "awaiting"
        /\ task[b].st = "completed" /\ sink[b] = <<>>

====
